---- MODULE Spec2Model ----
(***************************************************************************)
(* A model of the leveled logger of dihedron/go-log (package log with the  *)
(* LogLevel type: Trace..Panic, None).                                     *)
(*                                                                         *)
(* Text is modelled as a sequence of one-character strings and of a few    *)
(* atomic tokens (a format verb "%s", a rendered timestamp, a path         *)
(* segment), so that prefixes, suffixes and trimming are computed.         *)
(***************************************************************************)
EXTENDS Integers, Sequences, FiniteSets, TLC

----------------------------------------------------------------------------
(* Bounds of the model.                                                    *)

\* longest run of line terminators at the end of a caller's text
MaxTerm == 2
\* longest argument list of a line call
MaxArgs == 2
\* the number of log calls a thread of OrderSpec makes
MaxCalls == 2

----------------------------------------------------------------------------
(* The severity model.                                                     *)

TraceLevel == 0
DebugLevel == 1
InfoLevel == 2
WarnLevel == 3
ErrorLevel == 4
FatalLevel == 5
PanicLevel == 6
NoneLevel == 7

LogLevels == TraceLevel..NoneLevel
Severities == TraceLevel..PanicLevel

SourceInfoNone == 0
SourceInfoShort == 1
SourceInfoLong == 2

\* LogLevel.String: the display tag of a level
String(l) ==
  CASE l = TraceLevel -> <<"[", "T", "]">>
    [] l = DebugLevel -> <<"[", "D", "]">>
    [] l = InfoLevel -> <<"[", "I", "]">>
    [] l = WarnLevel -> <<"[", "W", "]">>
    [] l = ErrorLevel -> <<"[", "E", "]">>
    [] l = FatalLevel -> <<"[", "F", "]">>
    [] l = PanicLevel -> <<"[", "P", "]">>
    [] OTHER -> <<>>

----------------------------------------------------------------------------
(* Text helpers (package strings).                                         *)

NL == "\n"
CR == "\r"

HasPrefix(s, p) == Len(s) >= Len(p) /\ SubSeq(s, 1, Len(p)) = p

HasSuffix(s, p) == Len(s) >= Len(p) /\ SubSeq(s, Len(s) - Len(p) + 1, Len(s)) = p

TrimSuffix(s, p) == IF HasSuffix(s, p) THEN SubSeq(s, 1, Len(s) - Len(p)) ELSE s

\* strings.LastIndex(s, c), 0-based, -1 when c does not occur
LastIndex(s, c) ==
  LET hits == {i \in 1..Len(s) : s[i] = c}
  IN IF hits = {} THEN -1 ELSE (CHOOSE i \in hits : \A j \in hits : j <= i) - 1

\* s[strings.LastIndex(s, "/")+1:]
AfterLastSlash(s) == SubSeq(s, LastIndex(s, "/") + 2, Len(s))

----------------------------------------------------------------------------
(* The process configuration state.                                        *)

VARIABLES
  logLevel,            \* minimum severity
  logStream,           \* the sink: [id, wrapped]
  logTimeFormat,       \* time format template
  logPrintSourceInfo,  \* SourceInfoNone / Short / Long
  logPrintCallerInfo,  \* BOOLEAN
  logXf,               \* logTracef..logPanicf, indexed by severity
  logXln,              \* logTraceln..logPanicln, indexed by severity
  last,                \* what the latest operation of the caller did
  pc,                  \* per thread: where it stands in its operation
  loc,                 \* per thread: the operation's parameters and locals
  lk,                  \* per lock: the writer and the readers holding it
  sinkLines                 \* the numbered lines written so far, in order

config == <<logLevel, logStream, logTimeFormat, logPrintSourceInfo,
            logPrintCallerInfo, logXf, logXln>>

\* the state of the threads of ThreadSpec
tvars == <<pc, loc, lk, sinkLines>>

vars == <<logLevel, logStream, logTimeFormat, logPrintSourceInfo,
          logPrintCallerInfo, logXf, logXln, last, pc, loc, lk, sinkLines>>

\* the streams an application hands to SetStream: an *os.File and a buffer
Streams == {[id |-> "stderr", isFile |-> TRUE], [id |-> "buffer", isFile |-> FALSE]}

TimeFormats == {"2006-01-02@15:04:05.000", "15:04:05.000"}

SourceInfoModes == {SourceInfoNone, SourceInfoShort, SourceInfoLong}

\* the colour attribute SetStream gives each severity's primitive
Colour(sev) ==
  CASE sev = TraceLevel -> "FgWhite"
    [] sev = DebugLevel -> "FgWhite"
    [] sev = InfoLevel -> "FgGreen"
    [] sev = WarnLevel -> "FgYellow"
    [] sev = ErrorLevel -> "FgRed"
    [] sev = FatalLevel -> "FgBlue"
    [] sev = PanicLevel -> "FgMagenta"

\* color.New(c).Fprintf / Fprintln, and fmt.Fprintf / Fprintln
ColourPrim(fn, sev) == [fn |-> fn, colour |-> Colour(sev)]
PlainPrim(fn) == [fn |-> fn, colour |-> "plain"]

\* the branch SetStream takes: colorise && stream is an *os.File
Colorised(stream, colorise) == colorise /\ stream.isFile

\* the values SetStream stores
StreamFor(stream, colorise) ==
  [id |-> stream.id, wrapped |-> Colorised(stream, colorise)]

PrimsFor(fn, stream, colorise) ==
  [sev \in Severities |->
     IF Colorised(stream, colorise) THEN ColourPrim(fn, sev) ELSE PlainPrim(fn)]

\* what the sink's Write can answer: everything written, or an I/O error
WriteResults == {[n |-> 64, err |-> "nil"], [n |-> 0, err |-> "EIO"]}

\* runtime.Caller / runtime.FuncForPC: resolved, resolved without a function
\* record, or not resolved
CallerOutcomes == {"ok", "nofunc", "fail"}

\* what the environment answers during one call: all is well, the sink
\* fails, or the caller is not (fully) resolved
Envs ==
  {[caller |-> "ok", wr |-> w] : w \in WriteResults}
    \cup {[caller |-> c, wr |-> [n |-> 64, err |-> "nil"]] : c \in CallerOutcomes}

NoEnv == [caller |-> "none", wr |-> [n |-> 0, err |-> "none"]]

\* no value reached the caller
NoRet == [n |-> -1, err |-> "none"]

\* no slice of the caller was passed
NoBacking == [before |-> <<>>, after |-> <<>>]

\* LevelFromString was not called
NoParse == [level |-> NoneLevel, failed |-> FALSE, text |-> <<>>]

\* the record of an operation that is not a log call
Idle ==
  [op |-> "none", sev |-> NoneLevel, inFormat |-> <<>>,
   inArgs |-> <<>>, env |-> NoEnv, cfg |-> <<>>, writes |-> <<>>,
   ret |-> NoRet, outcome |-> "none", panicMsg |-> "", lookups |-> 0,
   parsed |-> NoParse, backing |-> NoBacking]

\* the application's threads
Threads == {"t1", "t2"}

\* the sync.RWMutex of each field
LockNames ==
  {"logLevelLock", "logStreamLock", "logTimeFormatLock",
   "logPrintSourceInfoLock", "logPrintCallerInfoLock"}

FreeLock == [w |-> "none", r |-> {}]

NoPrim == [fn |-> "none", colour |-> "none"]
NoStream == [id |-> "none", wrapped |-> FALSE]

\* what a composed line is made of: the time format of its timestamp, whether
\* it names the calling function, and its source annotation
NoLine == [tf |-> "none", withFun |-> FALSE, tail |-> SourceInfoNone]

\* the locals of a thread that runs no operation
IdleLoc ==
  [op |-> "none", sev |-> NoneLevel, form |-> "none",
   newLevel |-> NoneLevel, newStream |-> [id |-> "none", isFile |-> FALSE],
   colorise |-> FALSE, newFormat |-> "none", newEnabled |-> FALSE,
   newValue |-> SourceInfoNone, idx |-> 0,
   tf |-> "none", ci |-> FALSE, si |-> SourceInfoNone,
   ci2 |-> FALSE, si2 |-> SourceInfoNone, ok |-> FALSE, lookups |-> 0,
   line |-> NoLine, prim |-> NoPrim, stream |-> NoStream, wrote |-> FALSE,
   ret |-> NoRet, outcome |-> "none", k |-> 0]

ThreadsIdle ==
  /\ pc = [t \in Threads |-> "idle"]
  /\ loc = [t \in Threads |-> IdleLoc]
  /\ lk = [n \in LockNames |-> FreeLock]
  /\ sinkLines = <<>>

Init ==
  /\ ThreadsIdle
  /\ logLevel = DebugLevel
  /\ logStream = StreamFor([id |-> "stderr", isFile |-> TRUE], TRUE)
  /\ logXf = PrimsFor("Fprintf", [id |-> "stderr", isFile |-> TRUE], TRUE)
  /\ logXln = PrimsFor("Fprintln", [id |-> "stderr", isFile |-> TRUE], TRUE)
  /\ logTimeFormat = "2006-01-02@15:04:05.000"
  /\ logPrintCallerInfo = TRUE
  /\ logPrintSourceInfo = SourceInfoShort
  /\ last = Idle

SetLevel(level) ==
  /\ UNCHANGED tvars
  /\ logLevel' = level
  /\ last' = Idle
  /\ UNCHANGED <<logStream, logTimeFormat, logPrintSourceInfo, logPrintCallerInfo,
                 logXf, logXln>>

SetStream(stream, colorise) ==
  /\ UNCHANGED tvars
  /\ logStream' = StreamFor(stream, colorise)
  /\ logXf' = PrimsFor("Fprintf", stream, colorise)
  /\ logXln' = PrimsFor("Fprintln", stream, colorise)
  /\ last' = Idle
  /\ UNCHANGED <<logLevel, logTimeFormat, logPrintSourceInfo, logPrintCallerInfo>>

SetTimeFormat(format) ==
  /\ UNCHANGED tvars
  /\ logTimeFormat' = format
  /\ last' = Idle
  /\ UNCHANGED <<logLevel, logStream, logPrintSourceInfo, logPrintCallerInfo,
                 logXf, logXln>>

SetPrintCallerInfo(enabled) ==
  /\ UNCHANGED tvars
  /\ logPrintCallerInfo' = enabled
  /\ last' = Idle
  /\ UNCHANGED <<logLevel, logStream, logTimeFormat, logPrintSourceInfo,
                 logXf, logXln>>

SetPrintSourceInfo(value) ==
  /\ UNCHANGED tvars
  /\ logPrintSourceInfo' = value
  /\ last' = Idle
  /\ UNCHANGED <<logLevel, logStream, logTimeFormat, logPrintCallerInfo,
                 logXf, logXln>>

GetLevel == logLevel
GetStream == logStream
GetTimeFormat == logTimeFormat
GetPrintCallerInfo == logPrintCallerInfo
GetPrintSourceInfo == logPrintSourceInfo

IsTrace == GetLevel <= TraceLevel
IsDebug == GetLevel <= DebugLevel
IsInfo == GetLevel <= InfoLevel
IsWarning == GetLevel <= WarnLevel
IsError == GetLevel <= ErrorLevel
IsFatal == GetLevel <= FatalLevel
IsPanic == GetLevel <= PanicLevel
IsDisabled == GetLevel <= NoneLevel

----------------------------------------------------------------------------
(* The call stack, as far as runtime.Caller sees it.                       *)

LibFile == <<"/", "go", "/", "src", "/", "go-log", "/", "log.go">>

\* a frame of this package
Frame(name, line) ==
  [fun |-> <<"github.com", "/", "dihedron", "/", name>>,
   file |-> LibFile, line |-> line]

\* the application's call site
UserFrame ==
  [fun |-> <<"github.com", "/", "acme", "/", "app.run">>,
   file |-> <<"/", "home", "/", "acme", "/", "app", "/", "main.go">>,
   line |-> "42"]

Unknown == <<"<unknown>">>

\* runtime.Caller(skip) seen from the frame on top of stack
Caller(stack, skip, env) ==
  IF env.caller = "fail" \/ skip >= Len(stack)
  THEN [ok |-> FALSE, frame |-> [fun |-> <<>>, file |-> <<>>, line |-> "0"]]
  ELSE [ok |-> TRUE, frame |-> stack[Len(stack) - skip]]

\* runtime.FuncForPC(pc).Name(), "<unknown>" when there is no function record
FuncName(c, env) == IF env.caller = "nofunc" THEN Unknown ELSE c.frame.fun

\* time.Now().Format(format): the rendered time, one token per format
Now(format) == <<format>>

----------------------------------------------------------------------------
(* The line composer.                                                      *)

\* prepareFormatAndArgs as it would be if it resolved the caller even with
\* caller-info and source-info both off
prepareFormatAndArgs_AlwaysResolves(level, format, args, stack, env) ==
  LET leadFormat == <<"%s", " ", "%s", " ", "-", " ">>
      leadArgs == <<String(level), Now(GetTimeFormat)>>
      here == Append(stack, Frame("go-log.prepareFormatAndArgs", "539"))
  IN IF GetPrintCallerInfo \/ GetPrintSourceInfo > 0
     THEN LET c == Caller(here, 2, env)
          IN IF ~c.ok
             THEN [format |-> leadFormat \o format, args |-> leadArgs \o args,
                   lookups |-> 1]
             ELSE LET withFun == GetPrintCallerInfo
                      fun == AfterLastSlash(FuncName(c, env))
                      lf == IF withFun THEN leadFormat \o <<"%s", ":", " ">>
                                       ELSE leadFormat
                      la == IF withFun THEN Append(leadArgs, fun) ELSE leadArgs
                      si == GetPrintSourceInfo
                      tailed == si \in {SourceInfoShort, SourceInfoLong}
                      file == IF si = SourceInfoShort
                              THEN AfterLastSlash(c.frame.file) ELSE c.frame.file
                      tailFormat == IF tailed
                                    THEN <<" ", "(", "%s", ":", "%d", ")">> ELSE <<>>
                      tailArgs == IF tailed THEN <<file, <<c.frame.line>>>> ELSE <<>>
                      fmt == IF tailed THEN TrimSuffix(format, <<NL>>) ELSE format
                  IN [format |-> lf \o fmt \o tailFormat,
                      args |-> la \o (args \o tailArgs), lookups |-> 1]
     ELSE [format |-> leadFormat \o format, args |-> leadArgs \o args, lookups |-> 1]

\* prepareFormatAndArgs(level, format, args...), called from the frame on top
\* of stack
prepareFormatAndArgs(level, format, args, stack, env) ==
  LET leadFormat == <<"%s", " ", "%s", " ", "-", " ">>
      leadArgs == <<String(level), Now(GetTimeFormat)>>
      here == Append(stack, Frame("go-log.prepareFormatAndArgs", "539"))
  IN IF GetPrintCallerInfo \/ GetPrintSourceInfo > 0
     THEN LET c == Caller(here, 2, env)
          IN IF ~c.ok
             THEN [format |-> leadFormat \o format, args |-> leadArgs \o args,
                   lookups |-> 1]
             ELSE LET withFun == GetPrintCallerInfo
                      fun == AfterLastSlash(FuncName(c, env))
                      lf == IF withFun THEN leadFormat \o <<"%s", ":", " ">>
                                       ELSE leadFormat
                      la == IF withFun THEN Append(leadArgs, fun) ELSE leadArgs
                      si == GetPrintSourceInfo
                      tailed == si \in {SourceInfoShort, SourceInfoLong}
                      file == IF si = SourceInfoShort
                              THEN AfterLastSlash(c.frame.file) ELSE c.frame.file
                      tailFormat == IF tailed
                                    THEN <<" ", "(", "%s", ":", "%d", ")">> ELSE <<>>
                      tailArgs == IF tailed THEN <<file, <<c.frame.line>>>> ELSE <<>>
                      fmt == IF tailed THEN TrimSuffix(format, <<NL>>) ELSE format
                  IN [format |-> lf \o fmt \o tailFormat,
                      args |-> la \o (args \o tailArgs), lookups |-> 1]
     ELSE [format |-> leadFormat \o format, args |-> leadArgs \o args, lookups |-> 0]

\* fmt.Sprintf("%s %s -", level.String(), time.Now().Format(GetTimeFormat()))
Lead(level) == String(level) \o <<" ">> \o Now(GetTimeFormat) \o <<" ", "-">>

\* fmt.Sprintf("(%s:%d)", file, line)
Annotation(file, line) == <<"(">> \o file \o <<":", line, ")">>

\* prepareArgs(level, args...), called from the frame on top of stack;
\* crash: the index expression args[len(args)-1] is out of range
prepareArgs(level, args, stack, env) ==
  LET list == <<Lead(level)>>
      here == Append(stack, Frame("go-log.prepareArgs", "584"))
  IN IF GetPrintCallerInfo \/ GetPrintSourceInfo > 0
     THEN LET c == Caller(here, 2, env)
          IN IF ~c.ok
             THEN [args |-> list \o args, crash |-> FALSE, lookups |-> 1]
             ELSE LET withFun == GetPrintCallerInfo
                      fun == AfterLastSlash(FuncName(c, env))
                      list2 == IF withFun THEN Append(list, fun \o <<":">>) ELSE list
                      si == GetPrintSourceInfo
                      tailed == si \in {SourceInfoShort, SourceInfoLong}
                      file == IF si = SourceInfoShort
                              THEN AfterLastSlash(c.frame.file) ELSE c.frame.file
                  IN IF ~tailed
                     THEN [args |-> list2 \o args, crash |-> FALSE, lookups |-> 1]
                     ELSE IF Len(args) = 0
                     THEN [args |-> <<>>, crash |-> TRUE, lookups |-> 1]
                     ELSE LET lastArg == TrimSuffix(args[Len(args)], <<NL>>)
                              args2 == Append(SubSeq(args, 1, Len(args) - 1), lastArg)
                              args3 == Append(args2, Annotation(file, c.frame.line))
                          IN [args |-> list2 \o args3, crash |-> FALSE, lookups |-> 1]
     ELSE [args |-> list \o args, crash |-> FALSE, lookups |-> 0]

----------------------------------------------------------------------------
(* The emission gate and dispatcher: what one call does, as a record       *)
(*   writes   the calls of a sink primitive, in order                      *)
(*   ret      the (n, err) the caller receives, NoRet when none            *)
(*   outcome  "return" or "panic"                                          *)
(*   lookups  the number of runtime.Caller invocations                     *)

Zero == [n |-> 0, err |-> "nil"]

WriteOf(prim, sink, format, args) ==
  [prim |-> prim, sink |-> sink, format |-> format, args |-> args]

\* return 0, nil without having done anything
Skipped ==
  [writes |-> <<>>, ret |-> Zero, outcome |-> "return", panicMsg |-> "", lookups |-> 0]

\* the primitive was called and the call returned ret
Returned(w, ret, lookups) ==
  [writes |-> <<w>>, ret |-> ret, outcome |-> "return", panicMsg |-> "",
   lookups |-> lookups]

\* panic("unrecoverable error") after the given writes
Panicked(ws, lookups) ==
  [writes |-> ws, ret |-> NoRet, outcome |-> "panic",
   panicMsg |-> "unrecoverable error", lookups |-> lookups]

\* the runtime's panic on an index out of range
Crashed(lookups) ==
  [writes |-> <<>>, ret |-> NoRet, outcome |-> "panic",
   panicMsg |-> "index out of range", lookups |-> lookups]

\* if !HasSuffix(format, "\n") && !HasSuffix(format, "\r") { format += "\n" }
Terminated(format) ==
  IF ~HasSuffix(format, <<NL>>) /\ ~HasSuffix(format, <<CR>>)
  THEN format \o <<NL>> ELSE format

Traceln(args, stack, env) ==
  IF IsTrace
  THEN LET p == prepareArgs(DebugLevel, args, Append(stack, Frame("go-log.Traceln", "319")), env)
       IN IF p.crash THEN Crashed(p.lookups)
          ELSE Returned(WriteOf(logXln[TraceLevel], GetStream, <<>>, p.args), env.wr, p.lookups)
  ELSE Skipped

Debugln(args, stack, env) ==
  IF IsDebug
  THEN LET p == prepareArgs(DebugLevel, args, Append(stack, Frame("go-log.Debugln", "329")), env)
       IN IF p.crash THEN Crashed(p.lookups)
          ELSE Returned(WriteOf(logXln[DebugLevel], GetStream, <<>>, p.args), env.wr, p.lookups)
  ELSE Skipped

Infoln(args, stack, env) ==
  IF IsInfo
  THEN LET p == prepareArgs(InfoLevel, args, Append(stack, Frame("go-log.Infoln", "339")), env)
       IN IF p.crash THEN Crashed(p.lookups)
          ELSE Returned(WriteOf(logXln[InfoLevel], GetStream, <<>>, p.args), env.wr, p.lookups)
  ELSE Skipped

Warnln(args, stack, env) ==
  IF IsWarning
  THEN LET p == prepareArgs(WarnLevel, args, Append(stack, Frame("go-log.Warnln", "349")), env)
       IN IF p.crash THEN Crashed(p.lookups)
          ELSE Returned(WriteOf(logXln[WarnLevel], GetStream, <<>>, p.args), env.wr, p.lookups)
  ELSE Skipped

Errorln(args, stack, env) ==
  IF IsError
  THEN LET p == prepareArgs(ErrorLevel, args, Append(stack, Frame("go-log.Errorln", "359")), env)
       IN IF p.crash THEN Crashed(p.lookups)
          ELSE Returned(WriteOf(logXln[ErrorLevel], GetStream, <<>>, p.args), env.wr, p.lookups)
  ELSE Skipped

Fatalln(args, stack, env) ==
  IF IsFatal
  THEN LET p == prepareArgs(FatalLevel, args, Append(stack, Frame("go-log.Fatalln", "369")), env)
       IN IF p.crash THEN Crashed(p.lookups)
          ELSE Returned(WriteOf(logXln[FatalLevel], GetStream, <<>>, p.args), Zero, p.lookups)
  ELSE Skipped

Panicln(args, stack, env) ==
  IF IsPanic
  THEN LET p == prepareArgs(PanicLevel, args, Append(stack, Frame("go-log.Panicln", "379")), env)
       IN IF p.crash THEN Crashed(p.lookups)
          ELSE Panicked(<<WriteOf(logXln[PanicLevel], GetStream, <<>>, p.args)>>, p.lookups)
  ELSE Panicked(<<>>, 0)

Tracef(format, args, stack, env) ==
  IF IsTrace
  THEN LET p == prepareFormatAndArgs(TraceLevel, format, args,
                                     Append(stack, Frame("go-log.Tracef", "388")), env)
           w == WriteOf(logXf[TraceLevel], GetStream, Terminated(p.format), p.args)
       IN Returned(w, env.wr, p.lookups)
  ELSE Skipped

Debugf(format, args, stack, env) ==
  IF IsDebug
  THEN LET p == prepareFormatAndArgs(DebugLevel, format, args,
                                     Append(stack, Frame("go-log.Debugf", "400")), env)
           w == WriteOf(logXf[DebugLevel], GetStream, Terminated(p.format), p.args)
       IN Returned(w, env.wr, p.lookups)
  ELSE Skipped

Infof(format, args, stack, env) ==
  IF IsInfo
  THEN LET p == prepareFormatAndArgs(InfoLevel, format, args,
                                     Append(stack, Frame("go-log.Infof", "413")), env)
           w == WriteOf(logXf[InfoLevel], GetStream, Terminated(p.format), p.args)
       IN Returned(w, env.wr, p.lookups)
  ELSE Skipped

Warnf(format, args, stack, env) ==
  IF IsWarning
  THEN LET p == prepareFormatAndArgs(WarnLevel, format, args,
                                     Append(stack, Frame("go-log.Warnf", "425")), env)
           w == WriteOf(logXf[WarnLevel], GetStream, Terminated(p.format), p.args)
       IN Returned(w, env.wr, p.lookups)
  ELSE Skipped

Errorf(format, args, stack, env) ==
  IF IsError
  THEN LET p == prepareFormatAndArgs(ErrorLevel, format, args,
                                     Append(stack, Frame("go-log.Errorf", "438")), env)
           w == WriteOf(logXf[ErrorLevel], GetStream, Terminated(p.format), p.args)
       IN Returned(w, env.wr, p.lookups)
  ELSE Skipped

\* Fatalf as it would be if it handed the primitive's result to its caller
Fatalf_ReturnsWriteResult(format, args, stack, env) ==
  IF IsFatal
  THEN LET p == prepareFormatAndArgs(FatalLevel, format, args,
                                     Append(stack, Frame("go-log.Fatalf", "451")), env)
           w == WriteOf(logXf[FatalLevel], GetStream, Terminated(p.format), p.args)
       IN Returned(w, env.wr, p.lookups)
  ELSE Skipped

Fatalf(format, args, stack, env) ==
  IF IsFatal
  THEN LET p == prepareFormatAndArgs(FatalLevel, format, args,
                                     Append(stack, Frame("go-log.Fatalf", "451")), env)
           w == WriteOf(logXf[FatalLevel], GetStream, Terminated(p.format), p.args)
       IN Returned(w, Zero, p.lookups)
  ELSE Skipped

Panicf(format, args, stack, env) ==
  IF IsPanic
  THEN LET p == prepareFormatAndArgs(PanicLevel, format, args,
                                     Append(stack, Frame("go-log.Panicf", "464")), env)
           w == WriteOf(logXf[PanicLevel], GetStream, Terminated(p.format), p.args)
       IN Panicked(<<w>>, p.lookups)
  ELSE Panicked(<<>>, 0)

----------------------------------------------------------------------------
(* The raw pass-through router.                                            *)

TagLetters == {"T", "D", "I", "W", "E", "F", "P"}

\* the characters the regular expression class \s matches
Whitespace == {" ", "\t", NL, CR, "\f"}

\* regexp.MustCompile(`^\[(T|D|I|W|E|F|P)\]\s`).ReplaceAllString(format, "")
ReplaceTag(format) ==
  IF /\ Len(format) >= 4
     /\ format[1] = "[" /\ format[2] \in TagLetters /\ format[3] = "]"
     /\ format[4] \in Whitespace
  THEN SubSeq(format, 5, Len(format))
  ELSE format

\* args[1:]
Rest(args) == SubSeq(args, 2, Len(args))

\* Println as it would be if its verbatim branch were gated by the level
Println_Gated(args, stack, env) ==
  LET value == args[1]
      here(line) == Append(stack, Frame("go-log.Println", line))
  IN IF Len(args) > 0 /\ \E sev \in Severities : HasPrefix(value, String(sev))
     THEN CASE HasPrefix(value, String(TraceLevel)) -> Traceln(Rest(args), here("482"), env)
            [] HasPrefix(value, String(DebugLevel)) -> Debugln(Rest(args), here("484"), env)
            [] HasPrefix(value, String(InfoLevel)) -> Infoln(Rest(args), here("486"), env)
            [] HasPrefix(value, String(WarnLevel)) -> Warnln(Rest(args), here("488"), env)
            [] HasPrefix(value, String(ErrorLevel)) -> Errorln(Rest(args), here("490"), env)
            [] HasPrefix(value, String(FatalLevel)) -> Fatalln(Rest(args), here("492"), env)
            [] HasPrefix(value, String(PanicLevel)) -> Panicln(Rest(args), here("494"), env)
     ELSE IF GetLevel = NoneLevel
          THEN Skipped
          ELSE Returned(WriteOf(PlainPrim("Fprintln"), GetStream, <<>>, args), env.wr, 0)

Println(args, stack, env) ==
  LET value == args[1]
      here(line) == Append(stack, Frame("go-log.Println", line))
  IN IF Len(args) > 0 /\ \E sev \in Severities : HasPrefix(value, String(sev))
     THEN CASE HasPrefix(value, String(TraceLevel)) -> Traceln(Rest(args), here("482"), env)
            [] HasPrefix(value, String(DebugLevel)) -> Debugln(Rest(args), here("484"), env)
            [] HasPrefix(value, String(InfoLevel)) -> Infoln(Rest(args), here("486"), env)
            [] HasPrefix(value, String(WarnLevel)) -> Warnln(Rest(args), here("488"), env)
            [] HasPrefix(value, String(ErrorLevel)) -> Errorln(Rest(args), here("490"), env)
            [] HasPrefix(value, String(FatalLevel)) -> Fatalln(Rest(args), here("492"), env)
            [] HasPrefix(value, String(PanicLevel)) -> Panicln(Rest(args), here("494"), env)
     ELSE Returned(WriteOf(PlainPrim("Fprintln"), GetStream, <<>>, args), env.wr, 0)

Printf(format, args, stack, env) ==
  LET here(line) == Append(stack, Frame("go-log.Printf", line))
  IN CASE HasPrefix(format, String(TraceLevel)) ->
            Tracef(ReplaceTag(format), args, here("509"), env)
       [] HasPrefix(format, String(DebugLevel)) ->
            Debugf(ReplaceTag(format), args, here("511"), env)
       [] HasPrefix(format, String(InfoLevel)) ->
            Infof(ReplaceTag(format), args, here("513"), env)
       [] HasPrefix(format, String(WarnLevel)) ->
            Warnf(ReplaceTag(format), args, here("515"), env)
       [] HasPrefix(format, String(ErrorLevel)) ->
            Errorf(ReplaceTag(format), args, here("517"), env)
       [] HasPrefix(format, String(FatalLevel)) ->
            Fatalf(ReplaceTag(format), args, here("519"), env)
       [] HasPrefix(format, String(PanicLevel)) ->
            Panicf(ReplaceTag(format), args, here("521"), env)
       [] OTHER -> Returned(WriteOf(PlainPrim("Fprintf"), GetStream, format, args), env.wr, 0)

----------------------------------------------------------------------------
(* The calls an application makes.                                         *)

\* runs of one line terminator, up to MaxTerm long, and CR LF
Terms ==
  {[i \in 1..n |-> c] : n \in 0..MaxTerm, c \in {NL, CR}} \cup {<<CR, NL>>}

\* a message, with or without terminators at its end
Texts == {<<"m">> \o t : t \in Terms}

Templates == Texts

\* the positional arguments of a formatted call
FArgs == {<< <<"a">> >>}

\* the arguments of a line call: none, one text, or up to MaxArgs values
ArgLists ==
  {<<>>} \cup {<<t>> : t \in Texts}
         \cup {[i \in 1..n |-> <<"a">>] \o <<<<"m", NL>>>> : n \in 1..(MaxArgs - 1)}

\* leading texts of a passthrough call: untagged, tagged with a separator,
\* tagged without one, a bare tag
Tags == {String(sev) : sev \in Severities}
LeadTexts ==
  {<<"m">>} \cup {t \o sep \o <<"m">> : t \in Tags, sep \in {<<>>, <<" ">>}}
           \cup Tags

PrintfTemplates == LeadTexts \cup {<<"m", NL>>, <<"[", "W", "]", " ", "m", NL>>}
PrintlnArgLists ==
  {<<t>> \o r : t \in LeadTexts, r \in {<<>>, << <<"a">> >>}} \cup {<<>>}

\* the messages the dispatch is exercised with under every configuration
BaseTemplates == {<<"m">>}
BaseArgLists == {<<>>, << <<"m">>, <<"a">> >>}
BasePrintfTemplates == {<<"m">>, <<"[", "W", "]", " ", "m">>}
BasePrintlnArgLists == {<< <<"m">> >>, << <<"[", "W", "]", " ", "m">>, <<"a">> >>}

\* the caller sees result r of operation op; the configuration is not written
Record(op, sev, format, args, env, r) ==
  /\ last' = [op |-> op, sev |-> sev, inFormat |-> format, inArgs |-> args,
              env |-> env, cfg |-> config, writes |-> r.writes, ret |-> r.ret,
              outcome |-> r.outcome, panicMsg |-> r.panicMsg, lookups |-> r.lookups,
              parsed |-> NoParse, backing |-> NoBacking]
  /\ UNCHANGED config
  /\ UNCHANGED tvars

CallTraceln(A, E) ==
  \E args \in A, env \in E :
    Record("Traceln", TraceLevel, <<>>, args, env, Traceln(args, <<UserFrame>>, env))

CallDebugln(A, E) ==
  \E args \in A, env \in E :
    Record("Debugln", DebugLevel, <<>>, args, env, Debugln(args, <<UserFrame>>, env))

CallInfoln(A, E) ==
  \E args \in A, env \in E :
    Record("Infoln", InfoLevel, <<>>, args, env, Infoln(args, <<UserFrame>>, env))

CallWarnln(A, E) ==
  \E args \in A, env \in E :
    Record("Warnln", WarnLevel, <<>>, args, env, Warnln(args, <<UserFrame>>, env))

CallErrorln(A, E) ==
  \E args \in A, env \in E :
    Record("Errorln", ErrorLevel, <<>>, args, env, Errorln(args, <<UserFrame>>, env))

CallFatalln(A, E) ==
  \E args \in A, env \in E :
    Record("Fatalln", FatalLevel, <<>>, args, env, Fatalln(args, <<UserFrame>>, env))

CallPanicln(A, E) ==
  \E args \in A, env \in E :
    Record("Panicln", PanicLevel, <<>>, args, env, Panicln(args, <<UserFrame>>, env))

CallTracef(F, A, E) ==
  \E format \in F, args \in A, env \in E :
    Record("Tracef", TraceLevel, format, args, env, Tracef(format, args, <<UserFrame>>, env))

CallDebugf(F, A, E) ==
  \E format \in F, args \in A, env \in E :
    Record("Debugf", DebugLevel, format, args, env, Debugf(format, args, <<UserFrame>>, env))

CallInfof(F, A, E) ==
  \E format \in F, args \in A, env \in E :
    Record("Infof", InfoLevel, format, args, env, Infof(format, args, <<UserFrame>>, env))

CallWarnf(F, A, E) ==
  \E format \in F, args \in A, env \in E :
    Record("Warnf", WarnLevel, format, args, env, Warnf(format, args, <<UserFrame>>, env))

CallErrorf(F, A, E) ==
  \E format \in F, args \in A, env \in E :
    Record("Errorf", ErrorLevel, format, args, env, Errorf(format, args, <<UserFrame>>, env))

CallFatalf(F, A, E) ==
  \E format \in F, args \in A, env \in E :
    Record("Fatalf", FatalLevel, format, args, env, Fatalf(format, args, <<UserFrame>>, env))

CallPanicf(F, A, E) ==
  \E format \in F, args \in A, env \in E :
    Record("Panicf", PanicLevel, format, args, env, Panicf(format, args, <<UserFrame>>, env))

CallPrintln(A, E) ==
  \E args \in A, env \in E :
    Record("Println", NoneLevel, <<>>, args, env, Println(args, <<UserFrame>>, env))

CallPrintf(F, A, E) ==
  \E format \in F, args \in A, env \in E :
    Record("Printf", NoneLevel, format, args, env, Printf(format, args, <<UserFrame>>, env))

----------------------------------------------------------------------------
(* Spec: one caller, every setter, every entry point with one message.     *)

Next ==
  \/ \E level \in LogLevels : SetLevel(level)
  \/ \E stream \in Streams, colorise \in BOOLEAN : SetStream(stream, colorise)
  \/ \E format \in TimeFormats : SetTimeFormat(format)
  \/ \E enabled \in BOOLEAN : SetPrintCallerInfo(enabled)
  \/ \E value \in SourceInfoModes : SetPrintSourceInfo(value)
  \/ CallTracef(BaseTemplates, FArgs, Envs)
  \/ CallDebugf(BaseTemplates, FArgs, Envs)
  \/ CallInfof(BaseTemplates, FArgs, Envs)
  \/ CallWarnf(BaseTemplates, FArgs, Envs)
  \/ CallErrorf(BaseTemplates, FArgs, Envs)
  \/ CallFatalf(BaseTemplates, FArgs, Envs)
  \/ CallPanicf(BaseTemplates, FArgs, Envs)
  \/ CallTraceln(BaseArgLists, Envs)
  \/ CallDebugln(BaseArgLists, Envs)
  \/ CallInfoln(BaseArgLists, Envs)
  \/ CallWarnln(BaseArgLists, Envs)
  \/ CallErrorln(BaseArgLists, Envs)
  \/ CallFatalln(BaseArgLists, Envs)
  \/ CallPanicln(BaseArgLists, Envs)
  \/ CallPrintln(BasePrintlnArgLists, Envs)
  \/ CallPrintf(BasePrintfTemplates, FArgs, Envs)

Spec == Init /\ [][Next]_vars

----------------------------------------------------------------------------
(* SpecCompose: one caller with every severity enabled (the configuration  *)
(* TestLog sets up), the caller-info and source-info setters, and every    *)
(* entry point with every text of the bounds.                              *)

InitCompose ==
  /\ ThreadsIdle
  /\ logLevel = TraceLevel
  /\ logStream = StreamFor([id |-> "stderr", isFile |-> TRUE], TRUE)
  /\ logXf = PrimsFor("Fprintf", [id |-> "stderr", isFile |-> TRUE], TRUE)
  /\ logXln = PrimsFor("Fprintln", [id |-> "stderr", isFile |-> TRUE], TRUE)
  /\ logTimeFormat = "15:04:05.000"
  /\ logPrintCallerInfo = TRUE
  /\ logPrintSourceInfo = SourceInfoShort
  /\ last = Idle

NextCompose ==
  \/ \E enabled \in BOOLEAN : SetPrintCallerInfo(enabled)
  \/ \E value \in SourceInfoModes : SetPrintSourceInfo(value)
  \/ CallTracef(Templates, FArgs, Envs)
  \/ CallDebugf(Templates, FArgs, Envs)
  \/ CallInfof(Templates, FArgs, Envs)
  \/ CallWarnf(Templates, FArgs, Envs)
  \/ CallErrorf(Templates, FArgs, Envs)
  \/ CallFatalf(Templates, FArgs, Envs)
  \/ CallPanicf(Templates, FArgs, Envs)
  \/ CallTraceln(ArgLists, Envs)
  \/ CallDebugln(ArgLists, Envs)
  \/ CallInfoln(ArgLists, Envs)
  \/ CallWarnln(ArgLists, Envs)
  \/ CallErrorln(ArgLists, Envs)
  \/ CallFatalln(ArgLists, Envs)
  \/ CallPanicln(ArgLists, Envs)
  \/ CallPrintln(PrintlnArgLists, Envs)
  \/ CallPrintf(PrintfTemplates, FArgs, Envs)

SpecCompose == InitCompose /\ [][NextCompose]_vars

----------------------------------------------------------------------------
(* ThreadSpec: the application's threads run setters and typed log calls   *)
(* step by step: every acquisition and release of a lock, every read and   *)
(* write of a configuration field is a step.                               *)

\* sync.RWMutex.Lock / RLock may proceed
CanLock(name) == lk[name].w = "none" /\ lk[name].r = {}
CanRLock(name) == lk[name].w = "none"

Goto(t, to) == pc' = [pc EXCEPT ![t] = to]

\* ---- setters: the call and its xLock.Lock()

SetLevel_Lock(t, level) ==
  /\ pc[t] = "idle"
  /\ CanLock("logLevelLock")
  /\ lk' = [lk EXCEPT !["logLevelLock"].w = t]
  /\ Goto(t, "store")
  /\ loc' = [loc EXCEPT ![t] = [IdleLoc EXCEPT !.op = "SetLevel", !.newLevel = level]]
  /\ UNCHANGED <<config, last, sinkLines>>

SetStream_Lock(t, stream, colorise) ==
  /\ pc[t] = "idle"
  /\ CanLock("logStreamLock")
  /\ lk' = [lk EXCEPT !["logStreamLock"].w = t]
  /\ Goto(t, "store")
  /\ loc' = [loc EXCEPT ![t] = [IdleLoc EXCEPT !.op = "SetStream",
                                  !.newStream = stream, !.colorise = colorise]]
  /\ UNCHANGED <<config, last, sinkLines>>

SetTimeFormat_Lock(t, format) ==
  /\ pc[t] = "idle"
  /\ CanLock("logTimeFormatLock")
  /\ lk' = [lk EXCEPT !["logTimeFormatLock"].w = t]
  /\ Goto(t, "store")
  /\ loc' = [loc EXCEPT ![t] = [IdleLoc EXCEPT !.op = "SetTimeFormat",
                                  !.newFormat = format]]
  /\ UNCHANGED <<config, last, sinkLines>>

SetPrintCallerInfo_Lock(t, enabled) ==
  /\ pc[t] = "idle"
  /\ CanLock("logPrintCallerInfoLock")
  /\ lk' = [lk EXCEPT !["logPrintCallerInfoLock"].w = t]
  /\ Goto(t, "store")
  /\ loc' = [loc EXCEPT ![t] = [IdleLoc EXCEPT !.op = "SetPrintCallerInfo",
                                  !.newEnabled = enabled]]
  /\ UNCHANGED <<config, last, sinkLines>>

SetPrintSourceInfo_Lock(t, value) ==
  /\ pc[t] = "idle"
  /\ CanLock("logPrintSourceInfoLock")
  /\ lk' = [lk EXCEPT !["logPrintSourceInfoLock"].w = t]
  /\ Goto(t, "store")
  /\ loc' = [loc EXCEPT ![t] = [IdleLoc EXCEPT !.op = "SetPrintSourceInfo",
                                  !.newValue = value]]
  /\ UNCHANGED <<config, last, sinkLines>>

\* the lock a setter takes
LockOf(op) ==
  CASE op = "SetLevel" -> "logLevelLock"
    [] op = "SetStream" -> "logStreamLock"
    [] op = "SetTimeFormat" -> "logTimeFormatLock"
    [] op = "SetPrintCallerInfo" -> "logPrintCallerInfoLock"
    [] op = "SetPrintSourceInfo" -> "logPrintSourceInfoLock"

\* the assignment of SetLevel, SetTimeFormat, SetPrintCallerInfo,
\* SetPrintSourceInfo
Store(t) ==
  /\ pc[t] = "store"
  /\ loc[t].op # "SetStream"
  /\ logLevel' = IF loc[t].op = "SetLevel" THEN loc[t].newLevel ELSE logLevel
  /\ logTimeFormat' =
       IF loc[t].op = "SetTimeFormat" THEN loc[t].newFormat ELSE logTimeFormat
  /\ logPrintCallerInfo' =
       IF loc[t].op = "SetPrintCallerInfo" THEN loc[t].newEnabled
       ELSE logPrintCallerInfo
  /\ logPrintSourceInfo' =
       IF loc[t].op = "SetPrintSourceInfo" THEN loc[t].newValue
       ELSE logPrintSourceInfo
  /\ Goto(t, "unlock")
  /\ UNCHANGED <<logStream, logXf, logXln, last, sinkLines, loc, lk>>

\* the assignments of SetStream, one per step, in the order of the source:
\* logStream, logTracef..logPanicf, logTraceln..logPanicln
StoreStream(t) ==
  /\ pc[t] = "store"
  /\ loc[t].op = "SetStream"
  /\ LET i == loc[t].idx
         stream == loc[t].newStream
         colorise == loc[t].colorise
     IN /\ logStream' = IF i = 0 THEN StreamFor(stream, colorise) ELSE logStream
        /\ logXf' = IF i \in 1..7
                    THEN [logXf EXCEPT ![i - 1] = PrimsFor("Fprintf", stream, colorise)[i - 1]]
                    ELSE logXf
        /\ logXln' = IF i \in 8..14
                     THEN [logXln EXCEPT ![i - 8] = PrimsFor("Fprintln", stream, colorise)[i - 8]]
                     ELSE logXln
        /\ loc' = [loc EXCEPT ![t].idx = i + 1]
        /\ Goto(t, IF i = 14 THEN "unlock" ELSE "store")
  /\ UNCHANGED <<logLevel, logTimeFormat, logPrintCallerInfo, logPrintSourceInfo,
                 last, sinkLines, lk>>

\* a setter as it would be if it returned without xLock.Unlock()
Unlock_Forgotten(t) ==
  /\ pc[t] = "unlock"
  /\ Goto(t, "idle")
  /\ loc' = [loc EXCEPT ![t] = IdleLoc]
  /\ UNCHANGED <<config, last, sinkLines, lk>>

\* the deferred xLock.Unlock() of a setter; the setter returns
Unlock(t) ==
  /\ pc[t] = "unlock"
  /\ lk' = [lk EXCEPT ![LockOf(loc[t].op)].w = "none"]
  /\ Goto(t, "idle")
  /\ loc' = [loc EXCEPT ![t] = IdleLoc]
  /\ UNCHANGED <<config, last, sinkLines>>

\* ---- typed log calls

\* xLock.RLock() of a getter called at pc `at`
RLockAt(t, name, at, to) ==
  /\ pc[t] = at
  /\ CanRLock(name)
  /\ lk' = [lk EXCEPT ![name].r = @ \cup {t}]
  /\ Goto(t, to)
  /\ UNCHANGED <<config, last, sinkLines, loc>>

\* the deferred xLock.RUnlock() of a getter
RUnlock(t, name) == lk' = [lk EXCEPT ![name].r = @ \ {t}]

\* a thread enters Traceln..Panicln (form "ln") or Tracef..Panicf (form "f"):
\* IsTrace..IsPanic, GetLevel() <= the entry point's level
GetLevel_RLock(t, sev, form) ==
  /\ pc[t] = "idle"
  /\ loc[t].k <= MaxCalls
  /\ CanRLock("logLevelLock")
  /\ lk' = [lk EXCEPT !["logLevelLock"].r = @ \cup {t}]
  /\ Goto(t, "gate_r")
  /\ loc' = [loc EXCEPT ![t] = [IdleLoc EXCEPT !.op = "call", !.sev = sev,
                                  !.form = form, !.k = loc[t].k]]
  /\ UNCHANGED <<config, last, sinkLines>>

GetLevel_Return(t) ==
  /\ pc[t] = "gate_r"
  /\ RUnlock(t, "logLevelLock")
  /\ IF logLevel <= loc[t].sev
     THEN /\ loc' = loc
          /\ Goto(t, "tf")
     ELSE /\ loc' = [loc EXCEPT ![t].ret = IF loc[t].sev = PanicLevel THEN NoRet ELSE Zero,
                                ![t].outcome = IF loc[t].sev = PanicLevel
                                               THEN "panic" ELSE "return"]
          /\ Goto(t, "done")
  /\ UNCHANGED <<config, last, sinkLines>>

\* prepareArgs / prepareFormatAndArgs: time.Now().Format(GetTimeFormat())
GetTimeFormat_RLock(t) == RLockAt(t, "logTimeFormatLock", "tf", "tf_r")

GetTimeFormat_Return(t) ==
  /\ pc[t] = "tf_r"
  /\ RUnlock(t, "logTimeFormatLock")
  /\ loc' = [loc EXCEPT ![t].tf = logTimeFormat]
  /\ Goto(t, "ci")
  /\ UNCHANGED <<config, last, sinkLines>>

\* if GetPrintCallerInfo() || ...
GetPrintCallerInfo_RLock(t) == RLockAt(t, "logPrintCallerInfoLock", "ci", "ci_r")

GetPrintCallerInfo_Return(t) ==
  /\ pc[t] = "ci_r"
  /\ RUnlock(t, "logPrintCallerInfoLock")
  /\ loc' = [loc EXCEPT ![t].ci = logPrintCallerInfo, ![t].ci2 = logPrintCallerInfo]
  /\ Goto(t, IF logPrintCallerInfo THEN "caller" ELSE "si")
  /\ UNCHANGED <<config, last, sinkLines>>

\* ... || GetPrintSourceInfo() > 0
GetPrintSourceInfo_RLock(t) == RLockAt(t, "logPrintSourceInfoLock", "si", "si_r")

GetPrintSourceInfo_Return(t) ==
  /\ pc[t] = "si_r"
  /\ RUnlock(t, "logPrintSourceInfoLock")
  /\ loc' = [loc EXCEPT ![t].si = logPrintSourceInfo, ![t].si2 = logPrintSourceInfo]
  /\ Goto(t, IF logPrintSourceInfo > 0 THEN "caller" ELSE "compose")
  /\ UNCHANGED <<config, last, sinkLines>>

\* pc, file, line, ok := runtime.Caller(2)
RuntimeCaller(t, ok) ==
  /\ pc[t] = "caller"
  /\ loc' = [loc EXCEPT ![t].ok = ok, ![t].lookups = @ + 1]
  /\ Goto(t, IF ok THEN "ci2" ELSE "compose")
  /\ UNCHANGED <<config, last, sinkLines, lk>>

\* if GetPrintCallerInfo() { ... } of the resolved branch
GetPrintCallerInfo2_RLock(t) == RLockAt(t, "logPrintCallerInfoLock", "ci2", "ci2_r")

GetPrintCallerInfo2_Return(t) ==
  /\ pc[t] = "ci2_r"
  /\ RUnlock(t, "logPrintCallerInfoLock")
  /\ loc' = [loc EXCEPT ![t].ci2 = logPrintCallerInfo]
  /\ Goto(t, "si2")
  /\ UNCHANGED <<config, last, sinkLines>>

\* switch GetPrintSourceInfo() of the resolved branch
GetPrintSourceInfo2_RLock(t) == RLockAt(t, "logPrintSourceInfoLock", "si2", "si2_r")

GetPrintSourceInfo2_Return(t) ==
  /\ pc[t] = "si2_r"
  /\ RUnlock(t, "logPrintSourceInfoLock")
  /\ loc' = [loc EXCEPT ![t].si2 = logPrintSourceInfo]
  /\ Goto(t, "compose")
  /\ UNCHANGED <<config, last, sinkLines>>

\* the composer returns the line; its locals are gone
Compose(t) ==
  /\ pc[t] = "compose"
  /\ loc' = [loc EXCEPT
              ![t].line = [tf |-> loc[t].tf,
                           withFun |-> loc[t].ok /\ loc[t].ci2,
                           tail |-> IF loc[t].ok THEN loc[t].si2 ELSE SourceInfoNone],
              ![t].tf = "none", ![t].ci = FALSE, ![t].si = SourceInfoNone,
              ![t].ci2 = FALSE, ![t].si2 = SourceInfoNone, ![t].ok = FALSE]
  /\ Goto(t, "dispatch")
  /\ UNCHANGED <<config, last, sinkLines, lk>>

\* logXxx(GetStream(), ...): the read of the package variable logXxx, made
\* with no lock held, before or after the call of GetStream
ReadPrim(t) ==
  /\ pc[t] = "dispatch"
  /\ loc[t].prim = NoPrim
  /\ loc' = [loc EXCEPT ![t].prim = IF loc[t].form = "f" THEN logXf[loc[t].sev]
                                    ELSE logXln[loc[t].sev]]
  /\ UNCHANGED <<config, last, sinkLines, pc, lk>>

GetStream_RLock(t) ==
  /\ loc[t].stream = NoStream
  /\ RLockAt(t, "logStreamLock", "dispatch", "stream_r")

GetStream_Return(t) ==
  /\ pc[t] = "stream_r"
  /\ RUnlock(t, "logStreamLock")
  /\ loc' = [loc EXCEPT ![t].stream = logStream]
  /\ Goto(t, "dispatch")
  /\ UNCHANGED <<config, last, sinkLines>>

\* the call of the primitive on the sink, and what the entry point makes of
\* its result
\* WriteSink as it would be if the sink put a new line before the lines it
\* already holds
WriteSink_Prepends(t, wr) ==
  /\ pc[t] = "dispatch"
  /\ loc[t].prim # NoPrim
  /\ loc[t].stream # NoStream
  /\ loc' = [loc EXCEPT ![t].wrote = TRUE,
                        ![t].ret = CASE loc[t].sev = PanicLevel -> NoRet
                                     [] loc[t].sev = FatalLevel -> Zero
                                     [] OTHER -> wr,
                        ![t].outcome = IF loc[t].sev = PanicLevel
                                       THEN "panic" ELSE "return"]
  /\ sinkLines' = IF loc[t].k > 0 THEN <<[t |-> t, k |-> loc[t].k]>> \o sinkLines ELSE sinkLines
  /\ Goto(t, "done")
  /\ UNCHANGED <<config, last, lk>>

\* the line is on the sink when the primitive returns; a numbered call leaves
\* its number there
WriteSink(t, wr) ==
  /\ pc[t] = "dispatch"
  /\ loc[t].prim # NoPrim
  /\ loc[t].stream # NoStream
  /\ loc' = [loc EXCEPT ![t].wrote = TRUE,
                        ![t].ret = CASE loc[t].sev = PanicLevel -> NoRet
                                     [] loc[t].sev = FatalLevel -> Zero
                                     [] OTHER -> wr,
                        ![t].outcome = IF loc[t].sev = PanicLevel
                                       THEN "panic" ELSE "return"]
  /\ sinkLines' = IF loc[t].k > 0 THEN Append(sinkLines, [t |-> t, k |-> loc[t].k]) ELSE sinkLines
  /\ Goto(t, "done")
  /\ UNCHANGED <<config, last, lk>>

\* the call is over: its caller goes on (a panic is recovered, as in TestLog)
EndCall(t) ==
  /\ pc[t] = "done"
  /\ Goto(t, "idle")
  /\ loc' = [loc EXCEPT ![t] = [IdleLoc EXCEPT !.k = IF loc[t].k > 0
                                                      THEN loc[t].k + 1 ELSE 0]]
  /\ UNCHANGED <<config, last, sinkLines, lk>>

\* the values and entry points the threads use
ThreadLevels == {DebugLevel, WarnLevel}
ThreadCalls == {<<DebugLevel, "ln">>, <<InfoLevel, "f">>}
ThreadSourceInfoModes == {SourceInfoNone, SourceInfoShort}

ThreadStreams == {<<[id |-> "stderr", isFile |-> TRUE], TRUE>>,
                  <<[id |-> "buffer", isFile |-> FALSE], FALSE>>}

ThreadNext ==
  \E t \in Threads :
    \/ \E level \in ThreadLevels : SetLevel_Lock(t, level)
    \/ \E s \in ThreadStreams : SetStream_Lock(t, s[1], s[2])
    \/ \E format \in TimeFormats : SetTimeFormat_Lock(t, format)
    \/ \E enabled \in BOOLEAN : SetPrintCallerInfo_Lock(t, enabled)
    \/ \E value \in ThreadSourceInfoModes : SetPrintSourceInfo_Lock(t, value)
    \/ Store(t)
    \/ StoreStream(t)
    \/ Unlock(t)
    \/ \E c \in ThreadCalls : GetLevel_RLock(t, c[1], c[2])
    \/ GetLevel_Return(t)
    \/ GetTimeFormat_RLock(t)
    \/ GetTimeFormat_Return(t)
    \/ GetPrintCallerInfo_RLock(t)
    \/ GetPrintCallerInfo_Return(t)
    \/ GetPrintSourceInfo_RLock(t)
    \/ GetPrintSourceInfo_Return(t)
    \/ \E ok \in BOOLEAN : RuntimeCaller(t, ok)
    \/ GetPrintCallerInfo2_RLock(t)
    \/ GetPrintCallerInfo2_Return(t)
    \/ GetPrintSourceInfo2_RLock(t)
    \/ GetPrintSourceInfo2_Return(t)
    \/ Compose(t)
    \/ ReadPrim(t)
    \/ GetStream_RLock(t)
    \/ GetStream_Return(t)
    \/ \E wr \in WriteResults : WriteSink(t, wr)
    \/ EndCall(t)

ThreadSpec == Init /\ [][ThreadNext]_vars

----------------------------------------------------------------------------
(* Properties of the dispatch, checked under Spec.                         *)

FOps == {"Tracef", "Debugf", "Infof", "Warnf", "Errorf", "Fatalf", "Panicf"}
LnOps == {"Traceln", "Debugln", "Infoln", "Warnln", "Errorln", "Fatalln", "Panicln"}
TypedOps == FOps \cup LnOps

\* the latest operation was a typed call; its severity passed the gate
Typed == last.op \in TypedOps
Enabled == last.sev >= logLevel

\* C1: for every typed entry point and every minimum level M, a call at
\* severity S writes to the sink if and only if S >= M (so never when M is
\* None).
C1_WritesIffEnabled ==
  Typed => ((last.writes # <<>>) <=> Enabled)

\* C2: a call of any severity, Fatal and Panic included, made below the
\* minimum returns (0, nil) and does nothing else: no write, no configuration
\* change, no caller lookup, no panic.
C2_DisabledCallHasNoEffect ==
  (Typed /\ ~Enabled) =>
    /\ last.outcome = "return"
    /\ last.ret = Zero
    /\ last.writes = <<>>
    /\ last.lookups = 0
    /\ last.cfg = config

C6_PanicWritesThenUnwinds ==
  (last.op \in {"Panicf", "Panicln"} /\ Enabled) =>
    /\ Len(last.writes) = 1
    /\ last.outcome = "panic"
    /\ last.panicMsg = "unrecoverable error"

\* C7: a call of any severity that passes the gate writes to the sink exactly
\* once and returns to its caller the (n, err) the write produced.
C7_ReturnsTheWriteResult ==
  (Typed /\ Enabled) =>
    /\ Len(last.writes) = 1
    /\ last.outcome = "return"
    /\ last.ret = last.env.wr

----------------------------------------------------------------------------
(* Properties of the composer and of the router, checked under             *)
(* SpecCompose.                                                            *)

IsTerminator(c) == c \in {NL, CR}

\* text t is a text that holds no line terminator, followed by one terminator
\* (LF, CR or CR LF)
EndsInExactlyOneTerminator(t) ==
  \E k \in {1, 2} :
    /\ Len(t) >= k
    /\ SubSeq(t, Len(t) - k + 1, Len(t)) \in {<<NL>>, <<CR>>, <<CR, NL>>}
    /\ \A i \in 1..(Len(t) - k) : ~IsTerminator(t[i])

\* C8: for every formatted call, every template and every caller-info and
\* source-info setting, the template handed to the primitive ends in exactly
\* one line terminator and holds no terminator before it.
C8_TemplateEndsInOneTerminator ==
  (last.op \in FOps /\ last.writes # <<>>) =>
    EndsInExactlyOneTerminator(last.writes[1].format)

\* the "(file:line)" annotation of the application's call site
SiteAnnotation ==
  Annotation(IF logPrintSourceInfo = SourceInfoShort
             THEN <<"main.go">> ELSE UserFrame.file, UserFrame.line)

\* C9: for every line call with source-info Short or Long and a resolved
\* caller, the list handed to the primitive ends with the "(file:line)"
\* annotation, and the element before it, the caller's last argument, ends in
\* no line terminator.
C9_AnnotationLastNoTerminatorBefore ==
  (/\ last.op \in LnOps
   /\ last.writes # <<>>
   /\ logPrintSourceInfo \in {SourceInfoShort, SourceInfoLong}
   /\ last.env.caller # "fail") =>
    LET a == last.writes[1].args
        n == Len(a)
    IN /\ n >= 2
       /\ a[n] = SiteAnnotation
       /\ a[n - 1] # <<>> => ~IsTerminator(a[n - 1][Len(a[n - 1])])

\* the typed entry point of a severity, called by the application
Direct(form, sev, format, args, env) ==
  CASE form = "f" /\ sev = TraceLevel -> Tracef(format, args, <<UserFrame>>, env)
    [] form = "f" /\ sev = DebugLevel -> Debugf(format, args, <<UserFrame>>, env)
    [] form = "f" /\ sev = InfoLevel -> Infof(format, args, <<UserFrame>>, env)
    [] form = "f" /\ sev = WarnLevel -> Warnf(format, args, <<UserFrame>>, env)
    [] form = "f" /\ sev = ErrorLevel -> Errorf(format, args, <<UserFrame>>, env)
    [] form = "f" /\ sev = FatalLevel -> Fatalf(format, args, <<UserFrame>>, env)
    [] form = "f" /\ sev = PanicLevel -> Panicf(format, args, <<UserFrame>>, env)
    [] form = "ln" /\ sev = TraceLevel -> Traceln(args, <<UserFrame>>, env)
    [] form = "ln" /\ sev = DebugLevel -> Debugln(args, <<UserFrame>>, env)
    [] form = "ln" /\ sev = InfoLevel -> Infoln(args, <<UserFrame>>, env)
    [] form = "ln" /\ sev = WarnLevel -> Warnln(args, <<UserFrame>>, env)
    [] form = "ln" /\ sev = ErrorLevel -> Errorln(args, <<UserFrame>>, env)
    [] form = "ln" /\ sev = FatalLevel -> Fatalln(args, <<UserFrame>>, env)
    [] form = "ln" /\ sev = PanicLevel -> Panicln(args, <<UserFrame>>, env)

\* the latest call did what r says: sink output, return value, control flow
SameAs(r) ==
  /\ last.writes = r.writes
  /\ last.ret = r.ret
  /\ last.outcome = r.outcome
  /\ last.panicMsg = r.panicMsg

\* text t is the tag of sev, one blank, and more text
Tagged(t, sev) == HasPrefix(t, String(sev) \o <<" ">>) /\ Len(t) > 4

\* the text of t after the tag and the blank
AfterTag(t) == SubSeq(t, 5, Len(t))

\* C10: a passthrough call whose leading text is "[X] something" has the sink
\* output, the return value and the control flow of the typed entry point of
\* severity X called with "something" and the same trailing arguments.
C10_PassthroughEqualsTypedCall ==
  /\ last.op = "Printf" =>
       \A sev \in Severities :
         Tagged(last.inFormat, sev) =>
           SameAs(Direct("f", sev, AfterTag(last.inFormat), last.inArgs, last.env))
  /\ (last.op = "Println" /\ last.inArgs # <<>>) =>
       \A sev \in Severities :
         Tagged(last.inArgs[1], sev) =>
           SameAs(Direct("ln", sev, <<>>,
                         <<AfterTag(last.inArgs[1])>> \o Rest(last.inArgs), last.env))

----------------------------------------------------------------------------
(* Properties of concurrent use, checked under ThreadSpec.                 *)

\* C3: a log call that has written used a primitive and a sink installed by
\* the same SetStream: a colouring primitive with the colour-capable wrapper,
\* a plain primitive with the raw sink.
C3_PrimitiveAndSinkOfOneSetStream ==
  \A t \in Threads :
    loc[t].wrote => ((loc[t].prim.colour # "plain") <=> loc[t].stream.wrapped)

\* the position in SetStream's assignments of the primitive a call reads
PrimIndex(form, sev) == IF form = "f" THEN 1 + sev ELSE 8 + sev

\* thread t is about to read its primitive with no lock held while thread u
\* is about to assign that same variable
RacesOnPrim(t, u) ==
  /\ t # u
  /\ pc[t] = "dispatch"
  /\ loc[t].prim = NoPrim
  /\ pc[u] = "store"
  /\ loc[u].op = "SetStream"
  /\ loc[u].idx = PrimIndex(loc[t].form, loc[t].sev)

\* C4: every read of a configuration variable by a log call is made under
\* that variable's lock, so no read is ever concurrent with a setter's write
\* of the same variable.
C4_NoReadConcurrentWithWrite ==
  \A t \in Threads : \A u \in Threads : ~RacesOnPrim(t, u)

----------------------------------------------------------------------------
(* Properties of the router's choice and of the emitted tag.               *)

\* text t starts with a severity tag
StartsWithTag(t) == \E sev \in Severities : HasPrefix(t, String(sev))

\* text t starts with a severity tag followed by a separator
StartsWithSeparatedTag(t) ==
  StartsWithTag(t) /\ Len(t) >= 4 /\ t[4] \in Whitespace

\* the write of the input as it is, by the plain primitive fn
Verbatim(fn, format, args, env) ==
  Returned(WriteOf(PlainPrim(fn), GetStream, format, args), env.wr, 0)

\* no element of text t is the opening bracket of a tag
NoTagIn(t) == \A i \in 1..Len(t) : t[i] # "["

\* C11: a passthrough call whose leading text is not a severity tag followed
\* by a separator (for Println: nor a severity tag that is the whole first
\* argument) is not routed, its input is written as it is; and the template a
\* routed Printf call hands to the primitive holds no tag.
C11_RoutedOnlyOnTagAndSeparator ==
  /\ (last.op = "Printf" /\ ~StartsWithSeparatedTag(last.inFormat)) =>
       SameAs(Verbatim("Fprintf", last.inFormat, last.inArgs, last.env))
  /\ (/\ last.op = "Println"
      /\ last.inArgs # <<>>
      /\ ~StartsWithSeparatedTag(last.inArgs[1])
      /\ last.inArgs[1] \notin Tags) =>
       SameAs(Verbatim("Fprintln", <<>>, last.inArgs, last.env))
  /\ (/\ last.op = "Printf"
      /\ StartsWithSeparatedTag(last.inFormat)
      /\ last.writes # <<>>) =>
       NoTagIn(last.writes[1].format)

\* the leading text of the latest passthrough call starts with no tag
Untagged ==
  \/ last.op = "Printf" /\ ~StartsWithTag(last.inFormat)
  \/ last.op = "Println" /\ last.inArgs # <<>> /\ ~StartsWithTag(last.inArgs[1])

\* C12: a passthrough call whose leading text starts with no severity tag
\* writes its input once, as it is, with the plain primitive (no tag, no
\* timestamp, no caller lookup), whatever the minimum level, None included,
\* and returns what the write answered.
C12_UntaggedWrittenVerbatim ==
  Untagged =>
    SameAs(Verbatim(IF last.op = "Printf" THEN "Fprintf" ELSE "Fprintln",
                    last.inFormat, last.inArgs, last.env))
    /\ Len(last.writes) = 1
    /\ last.lookups = 0

\* an untagged Println call wrote its argument while the level was None
C12_Witness ==
  /\ last.op = "Println"
  /\ logLevel = NoneLevel
  /\ last.inArgs = << <<"m">> >>
  /\ Len(last.writes) = 1
  /\ last.writes[1].args = << <<"m">> >>

\* the first element of what the latest call handed to the primitive
FirstElement == last.writes[1].args[1]

\* C13: for every severity and both forms, the line a typed call emits starts
\* with the tag of the entry point's own severity.
C13_TagOfOwnSeverity ==
  (Typed /\ last.writes # <<>>) =>
    IF last.op \in FOps
    THEN FirstElement = String(last.sev)
    ELSE HasPrefix(FirstElement, String(last.sev))

----------------------------------------------------------------------------
(* Properties of the caller lookup.                                        *)

\* some element of what the latest call handed to the primitive holds tok
Mentions(tok) ==
  \E i \in 1..Len(last.writes[1].args) :
    \E j \in 1..Len(last.writes[1].args[i]) : last.writes[1].args[i][j] = tok

\* C14: an enabled typed call whose caller lookup fails, with caller-info or
\* source-info on, still writes its line and ends as it would otherwise, and
\* the line carries "<unknown>" for the function when caller-info is on, and
\* "???" for the file and -1 for the line when source-info is on.
C14_PlaceholdersOnFailedLookup ==
  (/\ Typed
   /\ Enabled
   /\ last.env.caller = "fail"
   /\ (logPrintCallerInfo \/ logPrintSourceInfo > 0)) =>
    /\ Len(last.writes) = 1
    /\ last.panicMsg # "index out of range"
    /\ logPrintCallerInfo => Mentions("<unknown>")
    /\ logPrintSourceInfo > 0 => (Mentions("???") /\ Mentions("-1"))

\* C15: a typed call makes no caller lookup when it is gated out, none when
\* caller-info and source-info are both off, and at most one otherwise.
C15_LookupsAtMostOnce ==
  Typed =>
    /\ ~Enabled => last.lookups = 0
    /\ (~logPrintCallerInfo /\ logPrintSourceInfo = SourceInfoNone) => last.lookups = 0
    /\ last.lookups <= 1

\* an enabled Infof call wrote its line with caller-info and source-info off
\* and made no lookup
C15_Witness ==
  /\ last.op = "Infof"
  /\ Enabled
  /\ ~logPrintCallerInfo
  /\ logPrintSourceInfo = SourceInfoNone
  /\ Len(last.writes) = 1
  /\ last.lookups = 0

----------------------------------------------------------------------------
(* Properties of a log call among concurrent setters, checked under        *)
(* ThreadSpec.                                                             *)

\* thread t has read caller-info and source-info for the last time in its
\* call, after a resolved caller lookup, and is about to build its line
ComposerHasRead(t) == pc[t] = "compose" /\ loc[t].ok

\* C16: within one log call, each read of the caller-info flag gives the same
\* value, and each read of the source-info mode gives the same value, even
\* when setters run between the reads (the mode is read in the condition only
\* when the flag is off).
C16_OneValuePerField ==
  \A t \in Threads :
    ComposerHasRead(t) =>
      /\ loc[t].ci2 = loc[t].ci
      /\ ~loc[t].ci => loc[t].si2 = loc[t].si

----------------------------------------------------------------------------
(* The lenient parser of level names, and SpecParse: an application that   *)
(* parses a level name, sets the level it got, and logs.                   *)

LowerCase ==
  <<"a", "b", "c", "d", "e", "f", "g", "h", "i", "j", "k", "l", "m", "n", "o", "p", "q", "r", "s", "t", "u", "v", "w", "x", "y", "z">>
UpperCase ==
  <<"A", "B", "C", "D", "E", "F", "G", "H", "I", "J", "K", "L", "M", "N", "O", "P", "Q", "R", "S", "T", "U", "V", "W", "X", "Y", "Z">>

\* unicode.ToLower of one character
ToLowerChar(c) ==
  IF \E k \in 1..Len(UpperCase) : UpperCase[k] = c
  THEN LowerCase[CHOOSE k \in 1..Len(UpperCase) : UpperCase[k] = c]
  ELSE c

\* strings.ToLower
ToLower(s) == [k \in 1..Len(s) |-> ToLowerChar(s[k])]

\* the characters strings.TrimSpace removes
Space == {" ", "\t", NL, CR, "\f"}

\* strings.TrimSpace
RECURSIVE TrimLeft(_)
TrimLeft(s) == IF s # <<>> /\ s[1] \in Space THEN TrimLeft(Tail(s)) ELSE s
RECURSIVE TrimRight(_)
TrimRight(s) ==
  IF s # <<>> /\ s[Len(s)] \in Space THEN TrimRight(SubSeq(s, 1, Len(s) - 1)) ELSE s
TrimSpace(s) == TrimRight(TrimLeft(s))

\* the case labels of LevelFromString
Spellings(l) ==
  CASE l = TraceLevel -> {<<"t">>, <<"t", "r", "c">>, <<"t", "r", "a", "c", "e">>}
    [] l = DebugLevel -> {<<"d">>, <<"d", "b", "g">>, <<"d", "e", "b", "u", "g">>}
    [] l = InfoLevel -> {<<"i">>, <<"i", "n", "f">>, <<"i", "n", "f", "o">>, <<"i", "n", "f", "o", "r", "m", "a", "t", "i", "o", "n", "a", "l">>}
    [] l = WarnLevel -> {<<"w">>, <<"w", "r", "n">>, <<"w", "a", "r", "n">>, <<"w", "a", "r", "n", "i", "n", "g">>}
    [] l = ErrorLevel -> {<<"e">>, <<"e", "r", "r">>, <<"e", "r", "r", "o", "r">>}
    [] l = FatalLevel -> {<<"f">>, <<"f", "t", "l">>, <<"f", "a", "t", "a", "l">>}
    [] l = PanicLevel -> {<<"p">>, <<"p", "a", "n">>, <<"p", "a", "n", "i", "c">>}
    [] l = NoneLevel -> {<<"n", "i", "l">>, <<"n", "u", "l", "l">>, <<"n", "o", "n", "e">>}

\* one character as the verb %q writes it
Escaped(c) ==
  CASE c = NL -> <<"\\", "n">>
    [] c = CR -> <<"\\", "r">>
    [] c = "\t" -> <<"\\", "t">>
    [] c = "\f" -> <<"\\", "f">>
    [] c = "\\" -> <<"\\", "\\">>
    [] c = "\"" -> <<"\\", "\"">>
    [] OTHER -> <<c>>

\* fmt.Sprintf("%q", s)
RECURSIVE EscapedAll(_)
EscapedAll(s) == IF s = <<>> THEN <<>> ELSE Escaped(s[1]) \o EscapedAll(Tail(s))
Quote(s) == <<"\"">> \o EscapedAll(s) \o <<"\"">>

\* fmt.Errorf("unparseable log level: %q", s)
Unparseable(s) == <<"unparseable log level: ">> \o Quote(s)

\* LevelFromString without strings.TrimSpace
LevelFromString_NoTrim(s) ==
  LET x == ToLower(s)
  IN IF \E l \in LogLevels : x \in Spellings(l)
     THEN [level |-> CHOOSE l \in LogLevels : x \in Spellings(l),
           failed |-> FALSE, text |-> <<>>]
     ELSE [level |-> ErrorLevel, failed |-> TRUE, text |-> Unparseable(s)]

\* LevelFromString(s): the level, and the error when there is one
LevelFromString(s) ==
  LET x == ToLower(TrimSpace(s))
  IN IF \E l \in LogLevels : x \in Spellings(l)
     THEN [level |-> CHOOSE l \in LogLevels : x \in Spellings(l),
           failed |-> FALSE, text |-> <<>>]
     ELSE [level |-> ErrorLevel, failed |-> TRUE, text |-> Unparseable(s)]

\* how a level name is typed: as it is, in capitals, with a capital first
Cased(w, mode) ==
  CASE mode = "lower" -> w
    [] mode = "upper" ->
         [k \in 1..Len(w) |->
            UpperCase[CHOOSE i \in 1..Len(LowerCase) : LowerCase[i] = w[k]]]
    [] mode = "title" ->
         [k \in 1..Len(w) |->
            IF k = 1
            THEN UpperCase[CHOOSE i \in 1..Len(LowerCase) : LowerCase[i] = w[k]]
            ELSE w[k]]

\* the whitespace around a level name
Pads == {<<>>, <<" ">>, <<"\t", NL>>}

\* level names as users type them
Names ==
  {lp \o Cased(w, mode) \o rp :
     w \in UNION {Spellings(l) : l \in LogLevels},
     mode \in {"lower", "upper", "title"}, lp \in Pads, rp \in Pads}

\* texts that name no level
NoNames ==
  {<<>>, <<" ">>, <<"x">>, <<"d", " ", "b", "g">>, <<"d", "e", "b", "u", "g", "x">>,
   <<"\t", "W", "a", "r", "n", "i", "n">>, <<"\"", "e", "r", "r", "\"">>,
   <<"v", "e", "r", "b", "o", "s", "e", NL>>, <<"1">>, <<"[", "D", "]">>}

ParseInputs == Names \cup NoNames

\* the application calls LevelFromString(s)
CallLevelFromString(S) ==
  \E s \in S :
    /\ last' = [Idle EXCEPT !.op = "LevelFromString", !.inFormat = s,
                            !.parsed = LevelFromString(s)]
    /\ UNCHANGED config
    /\ UNCHANGED tvars

\* the application sets the level LevelFromString gave it
SetParsedLevel ==
  /\ last.op = "LevelFromString"
  /\ ~last.parsed.failed
  /\ SetLevel(last.parsed.level)

NextParse ==
  \/ CallLevelFromString(ParseInputs)
  \/ SetParsedLevel
  \/ CallInfof(BaseTemplates, FArgs, Envs)
  \/ CallErrorln(BaseArgLists, Envs)
  \/ CallFatalf(BaseTemplates, FArgs, Envs)
  \/ CallPrintf(BasePrintfTemplates, FArgs, Envs)

SpecParse == Init /\ [][NextParse]_vars

\* characters a and b are one letter, in whatever case
SameLetter(a, b) ==
  a = b \/ \E k \in 1..Len(LowerCase) : {a, b} = {LowerCase[k], UpperCase[k]}

\* text s is the level name w in some letter case, with whitespace around it
Writes(s, w) ==
  \E i \in 0..Len(s) : \E j \in 0..Len(s) :
    /\ i + Len(w) + j = Len(s)
    /\ \A k \in 1..i : s[k] \in Space
    /\ \A k \in (Len(s) - j + 1)..Len(s) : s[k] \in Space
    /\ \A k \in 1..Len(w) : SameLetter(s[i + k], w[k])

\* text s names level l
NamesLevel(s, l) == \E w \in Spellings(l) : Writes(s, w)

\* the text a quoted text q stands for
RECURSIVE Unquoted(_)
Unquoted(q) ==
  IF q = <<>> THEN <<>>
  ELSE IF q[1] = "\\" /\ Len(q) >= 2
  THEN <<CASE q[2] = "n" -> NL
           [] q[2] = "r" -> CR
           [] q[2] = "t" -> "\t"
           [] q[2] = "f" -> "\f"
           [] OTHER -> q[2]>> \o Unquoted(SubSeq(q, 3, Len(q)))
  ELSE <<q[1]>> \o Unquoted(Tail(q))

\* the error text e quotes the text s
Carries(e, s) ==
  /\ Len(e) >= 3
  /\ e[2] = "\"" /\ e[Len(e)] = "\""
  /\ Unquoted(SubSeq(e, 3, Len(e) - 1)) = s

\* C17: LevelFromString gives level l and no error for every text that is a
\* spelling of l in any letter case with whitespace around it, and an error
\* that quotes the text for every other text; what a log call returns as its
\* error is only ever nil or the error of the sink's write.
C17_LevelFromStringLenient ==
  /\ last.op = "LevelFromString" =>
       /\ \A l \in LogLevels :
            NamesLevel(last.inFormat, l) =>
              (last.parsed.level = l /\ ~last.parsed.failed)
       /\ (\A l \in LogLevels : ~NamesLevel(last.inFormat, l)) =>
            (last.parsed.failed /\ Carries(last.parsed.text, last.inFormat))
  /\ last.op \in (TypedOps \cup {"Println", "Printf"}) =>
       (last.parsed = NoParse /\ last.ret \in {Zero, NoRet, last.env.wr})

\* LevelFromString was given "WARNING" with whitespace around it and
\* answered Warn without an error
C17_Witness ==
  /\ last.op = "LevelFromString"
  /\ last.inFormat = <<"\t", NL, "W", "A", "R", "N", "I", "N", "G", " ">>
  /\ last.parsed = [level |-> WarnLevel, failed |-> FALSE, text |-> <<>>]

----------------------------------------------------------------------------
(* OrderSpec: the threads make numbered log calls, one after the other,    *)
(* and no thread changes the configuration.                                *)

\* the entry points the threads of OrderSpec call
OrderCalls == {<<DebugLevel, "ln">>, <<InfoLevel, "f">>}

InitOrder ==
  /\ pc = [t \in Threads |-> "idle"]
  /\ loc = [t \in Threads |-> [IdleLoc EXCEPT !.k = 1]]
  /\ lk = [n \in LockNames |-> FreeLock]
  /\ sinkLines = <<>>
  /\ logLevel = DebugLevel
  /\ logStream = StreamFor([id |-> "stderr", isFile |-> TRUE], TRUE)
  /\ logXf = PrimsFor("Fprintf", [id |-> "stderr", isFile |-> TRUE], TRUE)
  /\ logXln = PrimsFor("Fprintln", [id |-> "stderr", isFile |-> TRUE], TRUE)
  /\ logTimeFormat = "2006-01-02@15:04:05.000"
  /\ logPrintCallerInfo = TRUE
  /\ logPrintSourceInfo = SourceInfoShort
  /\ last = Idle

NextOrder ==
  \E t \in Threads :
    \/ \E c \in OrderCalls : GetLevel_RLock(t, c[1], c[2])
    \/ GetLevel_Return(t)
    \/ GetTimeFormat_RLock(t)
    \/ GetTimeFormat_Return(t)
    \/ GetPrintCallerInfo_RLock(t)
    \/ GetPrintCallerInfo_Return(t)
    \/ \E ok \in BOOLEAN : RuntimeCaller(t, ok)
    \/ GetPrintCallerInfo2_RLock(t)
    \/ GetPrintCallerInfo2_Return(t)
    \/ GetPrintSourceInfo2_RLock(t)
    \/ GetPrintSourceInfo2_Return(t)
    \/ Compose(t)
    \/ ReadPrim(t)
    \/ GetStream_RLock(t)
    \/ GetStream_Return(t)
    \/ \E wr \in WriteResults : WriteSink(t, wr)
    \/ EndCall(t)

OrderSpec == InitOrder /\ [][NextOrder]_vars

\* the numbers of the lines of thread t on the sink, in the sink's order
RECURSIVE LinesOf(_, _)
LinesOf(t, s) ==
  IF s = <<>> THEN <<>>
  ELSE IF s[1].t = t THEN <<s[1].k>> \o LinesOf(t, Tail(s))
  ELSE LinesOf(t, Tail(s))

\* the number of calls of thread t whose write has returned
Written(t) == IF loc[t].wrote THEN loc[t].k ELSE loc[t].k - 1

\* C18: the lines of one thread are on the sink in the order of its calls:
\* when the write of its call k has returned and the write of call k+1 has
\* not, the sink holds exactly its lines 1..k, in that order, whatever the
\* other threads log meanwhile.
C18_LinesInProgramOrder ==
  \A t \in Threads :
    LinesOf(t, sinkLines) = [i \in 1..Written(t) |-> i]

\* both threads have made all their calls and the lines of the two are
\* interleaved on the sink
C18_Witness ==
  /\ \A t \in Threads : loc[t].k = MaxCalls + 1 /\ pc[t] = "idle"
  /\ Len(sinkLines) = 2 * MaxCalls
  /\ sinkLines[1].t # sinkLines[2].t

----------------------------------------------------------------------------
(* LiveSpec: the threads call setters and log calls; a call is made first  *)
(* and waits for its lock next, so a thread that is blocked is seen; the   *)
(* scheduler is fair and sync.RWMutex lets no waiter starve.               *)

\* the setter calls of LiveSpec
SetterCalls ==
  {[IdleLoc EXCEPT !.op = "SetLevel", !.newLevel = DebugLevel],
   [IdleLoc EXCEPT !.op = "SetStream", !.colorise = TRUE,
                   !.newStream = [id |-> "stderr", isFile |-> TRUE]],
   [IdleLoc EXCEPT !.op = "SetTimeFormat", !.newFormat = "2006-01-02@15:04:05.000"],
   [IdleLoc EXCEPT !.op = "SetPrintCallerInfo", !.newEnabled = TRUE],
   [IdleLoc EXCEPT !.op = "SetPrintCallerInfo", !.newEnabled = FALSE],
   [IdleLoc EXCEPT !.op = "SetPrintSourceInfo", !.newValue = SourceInfoShort]}

\* thread t calls a setter
CallSetter(t, call) ==
  /\ pc[t] = "idle"
  /\ loc' = [loc EXCEPT ![t] = call]
  /\ Goto(t, "lock")
  /\ UNCHANGED <<config, last, sinkLines, lk>>

\* xLock.Lock() of the setter: waits until no one holds the lock
Lock(t) ==
  /\ pc[t] = "lock"
  /\ CanLock(LockOf(loc[t].op))
  /\ lk' = [lk EXCEPT ![LockOf(loc[t].op)].w = t]
  /\ Goto(t, "store")
  /\ UNCHANGED <<config, last, sinkLines, loc>>

\* thread t calls a typed entry point
CallLog(t, sev, form) ==
  /\ pc[t] = "idle"
  /\ loc' = [loc EXCEPT ![t] = [IdleLoc EXCEPT !.op = "call", !.sev = sev,
                                  !.form = form]]
  /\ Goto(t, "gate")
  /\ UNCHANGED <<config, last, sinkLines, lk>>

\* IsX -> GetLevel: logLevelLock.RLock()
GetLevel_RLockInCall(t) == RLockAt(t, "logLevelLock", "gate", "gate_r")

\* the steps in which thread t waits for a lock
Acquire(t) ==
  \/ Lock(t)
  \/ GetLevel_RLockInCall(t)
  \/ GetTimeFormat_RLock(t)
  \/ GetPrintCallerInfo_RLock(t)
  \/ GetPrintSourceInfo_RLock(t)
  \/ GetPrintCallerInfo2_RLock(t)
  \/ GetPrintSourceInfo2_RLock(t)
  \/ GetStream_RLock(t)

\* the steps of thread t that wait for nothing
Continue(t) ==
  \/ Store(t)
  \/ StoreStream(t)
  \/ Unlock(t)
  \/ GetLevel_Return(t)
  \/ GetTimeFormat_Return(t)
  \/ GetPrintCallerInfo_Return(t)
  \/ GetPrintSourceInfo_Return(t)
  \/ \E ok \in BOOLEAN : RuntimeCaller(t, ok)
  \/ GetPrintCallerInfo2_Return(t)
  \/ GetPrintSourceInfo2_Return(t)
  \/ Compose(t)
  \/ ReadPrim(t)
  \/ GetStream_Return(t)
  \/ \E wr \in WriteResults : WriteSink(t, wr)
  \/ EndCall(t)

LiveNext ==
  \E t \in Threads :
    \/ \E call \in SetterCalls : CallSetter(t, call)
    \/ CallLog(t, DebugLevel, "ln")
    \/ Acquire(t)
    \/ Continue(t)

LiveSpec ==
  /\ Init
  /\ [][LiveNext]_vars
  /\ \A t \in Threads : WF_vars(Continue(t)) /\ SF_vars(Acquire(t))

\* the locks thread t holds
Held(t) == {n \in LockNames : lk[n].w = t \/ t \in lk[n].r}

\* thread t is about to take a lock or to write to the sink, or is in no
\* operation
AtLockFreePoint(t) ==
  pc[t] \in {"idle", "lock", "gate", "tf", "ci", "si", "caller", "ci2", "si2",
             "compose", "dispatch", "done"}

\* C19: a thread holds at most one configuration lock at a time, and none
\* when it takes a lock, writes to the sink or is in no operation; and with a
\* fair scheduler every setter and every log call that was made returns.
C19_EveryCallReturns ==
  /\ [](\A t \in Threads :
          /\ Cardinality(Held(t)) <= 1
          /\ AtLockFreePoint(t) => Held(t) = {})
  /\ \A t \in Threads : (pc[t] # "idle") ~> (pc[t] = "idle")

\* a setter waits for the lock that a log call of the other thread holds
C19_Witness ==
  /\ pc["t1"] = "lock"
  /\ loc["t1"].op = "SetPrintCallerInfo"
  /\ pc["t2"] = "ci2_r"
  /\ "t2" \in lk["logPrintCallerInfoLock"].r

----------------------------------------------------------------------------
(* Property of the level predicates, checked under Spec.                   *)

\* C20: IsDisabled() is true exactly when the minimum level is None.
C20_IsDisabledIffNone ==
  IsDisabled <=> (logLevel = NoneLevel)

----------------------------------------------------------------------------
(* Property of the line calls on short argument lists, checked under Spec. *)

\* the severities whose entry points are meant to return
Returning == {TraceLevel, DebugLevel, InfoLevel, WarnLevel, ErrorLevel}

\* C21: an enabled line call of severity Trace..Error returns to its caller,
\* whatever its argument list, the empty one included, and whatever the
\* configuration; so does a Println call whose only argument is the tag of
\* one of these severities.
C21_LineCallNeverPanics ==
  /\ (last.op \in {"Traceln", "Debugln", "Infoln", "Warnln", "Errorln"} /\ Enabled) =>
       last.outcome = "return"
  /\ (/\ last.op = "Println"
      /\ Len(last.inArgs) = 1
      /\ \E sev \in Returning : last.inArgs[1] = String(sev)) =>
       last.outcome = "return"

----------------------------------------------------------------------------
(* SpecSlice: the application passes a slice of its own as the arguments   *)
(* (xs...), so the composer works on the application's backing array.      *)
(* A slice is [arr, len]: the backing array and the length; its capacity   *)
(* is Len(arr).                                                            *)

\* the elements of slice xs
ArgsOf(xs) == SubSeq(xs.arr, 1, xs.len)

\* the source annotation the composer called from the frame on top of here
\* adds: whether there is one, its file and its line
SourceTail(here, env) ==
  LET c == Caller(here, 2, env)
      si == GetPrintSourceInfo
  IN IF /\ (GetPrintCallerInfo \/ GetPrintSourceInfo > 0)
        /\ c.ok
        /\ si \in {SourceInfoShort, SourceInfoLong}
     THEN [tailed |-> TRUE,
           file |-> IF si = SourceInfoShort
                    THEN AfterLastSlash(c.frame.file) ELSE c.frame.file,
           line |-> c.frame.line]
     ELSE [tailed |-> FALSE, file |-> <<>>, line |-> "0"]

\* the backing array of xs after prepareArgs(level, xs...):
\*   args = append(args[:len(args)-1], last) stores last in place, the
\*   capacity of args[:len(args)-1] being that of args;
\*   args = append(args, "(file:line)") stores in place when there is
\*   capacity left, and in a new array otherwise
prepareArgsArray(xs, stack, env) ==
  LET t == SourceTail(Append(stack, Frame("go-log.prepareArgs", "584")), env)
      n == xs.len
  IN IF ~t.tailed \/ n = 0
     THEN xs.arr
     ELSE LET trimmed == [xs.arr EXCEPT ![n] = TrimSuffix(xs.arr[n], <<NL>>)]
          IN IF n < Len(xs.arr)
             THEN [trimmed EXCEPT ![n + 1] = Annotation(t.file, t.line)]
             ELSE trimmed

\* the backing array of xs after prepareFormatAndArgs(level, format, xs...):
\*   append(args, tailArgs...) stores file and line in place when the
\*   capacity left holds both, and in a new array otherwise
prepareFormatAndArgsArray(xs, stack, env) ==
  LET t == SourceTail(Append(stack, Frame("go-log.prepareFormatAndArgs", "539")), env)
      n == xs.len
  IN IF t.tailed /\ n + 2 <= Len(xs.arr)
     THEN [xs.arr EXCEPT ![n + 1] = t.file, ![n + 2] = <<t.line>>]
     ELSE xs.arr

\* the slices the application passes: full, with one element of capacity
\* left, with two, and empty
Slices ==
  {[arr |-> << <<"m", NL>> >>, len |-> 1],
   [arr |-> << <<"m">>, <<"a">> >>, len |-> 2],
   [arr |-> << <<"m">>, <<"z">> >>, len |-> 1],
   [arr |-> << <<"m">>, <<"a">>, <<"z">>, <<"z">> >>, len |-> 2],
   [arr |-> << <<"z">> >>, len |-> 0]}

\* the caller sees result r of operation op called with slice xs, and finds
\* the backing array of xs as after
RecordSlice(op, sev, format, xs, env, r, after) ==
  /\ last' = [op |-> op, sev |-> sev, inFormat |-> format, inArgs |-> ArgsOf(xs),
              env |-> env, cfg |-> config, writes |-> r.writes, ret |-> r.ret,
              outcome |-> r.outcome, panicMsg |-> r.panicMsg, lookups |-> r.lookups,
              parsed |-> NoParse, backing |-> [before |-> xs.arr, after |-> after]]
  /\ UNCHANGED config
  /\ UNCHANGED tvars

\* Debugln(xs...)
CallDebuglnSlice(X, E) ==
  \E xs \in X, env \in E :
    RecordSlice("Debugln", DebugLevel, <<>>, xs, env,
                Debugln(ArgsOf(xs), <<UserFrame>>, env),
                IF IsDebug
                THEN prepareArgsArray(xs, <<UserFrame, Frame("go-log.Debugln", "329")>>, env)
                ELSE xs.arr)

\* Infof(format, xs...)
CallInfofSlice(F, X, E) ==
  \E format \in F, xs \in X, env \in E :
    RecordSlice("Infof", InfoLevel, format, xs, env,
                Infof(format, ArgsOf(xs), <<UserFrame>>, env),
                IF IsInfo
                THEN prepareFormatAndArgsArray(
                       xs, <<UserFrame, Frame("go-log.Infof", "413")>>, env)
                ELSE xs.arr)

NextSlice ==
  \/ \E level \in LogLevels : SetLevel(level)
  \/ \E enabled \in BOOLEAN : SetPrintCallerInfo(enabled)
  \/ \E value \in SourceInfoModes : SetPrintSourceInfo(value)
  \/ CallDebuglnSlice(Slices, Envs)
  \/ CallInfofSlice(BaseTemplates, Slices, Envs)

SpecSlice == Init /\ [][NextSlice]_vars

\* C22: a log call that is given a slice of the caller leaves the slice's
\* backing array as it was: the elements of the slice and the elements
\* beyond its length.
C22_BackingArrayUnchanged ==
  last.backing.after = last.backing.before

====
